---- MODULE Spec2Model ----
(***************************************************************************)
(* A model of warmac's command line front end (warmac/cli_parser.py):      *)
(*   - str_to_int_bounds_check, the bounded integer parser, and            *)
(*   - handle_input, the command router built on the argparse parser that  *)
(*     _create_parser configures.                                          *)
(* A Python str is a sequence of one-character strings, so that strip(),   *)
(* lower(), int() and str() are computed character by character.           *)
(***************************************************************************)
EXTENDS Integers, Sequences, FiniteSets, TLC

VARIABLES
    \* ---- one call of str_to_int_bounds_check(val, min_val, max_val) ----
    val,          \* the raw string
    min_val,      \* inclusive lower bound
    max_val,      \* exclusive upper bound
    ipc,          \* "call" before the call, "done" after it
    result,       \* what the call did: a returned int or a raised exception
    \* ---- one call of handle_input(args) in a process ----
    args,         \* the argument of handle_input: a token list, or None
    sys_argv,     \* sys.argv[1:] of the process, read when args is None
    pc,           \* the statement of handle_input that runs next
    parsed_args,  \* the local parsed_args (an argparse.Namespace)
    emitted,      \* everything written so far, in order, with its stream
    exit_code,    \* the status of SystemExit once the process terminated
    returned,     \* the value handle_input returned to its caller
    parses,       \* how many times this call of handle_input ran parse_args
    \* ---- a process that calls handle_input a second time ----
    calls,        \* how many calls of handle_input have ended and been followed
    first         \* what the first call did, once the second one has begun

intVars == <<val, min_val, max_val, ipc, result>>
cliVars == <<args, sys_argv, pc, parsed_args, emitted, exit_code, returned, parses>>
procVars == <<calls, first>>
vars == <<val, min_val, max_val, ipc, result,
          args, sys_argv, pc, parsed_args, emitted, exit_code, returned, parses,
          calls, first>>

(***************************************************************************)
(* Bounds of the model.                                                    *)
(***************************************************************************)
\* longest raw string drawn over IntChars for str_to_int_bounds_check
MaxLen == 3
\* min_val ranges over -IntRange .. 10 + IntRange (one and two digit numbers)
IntRange == 2
\* max_val ranges over min_val - 1 .. min_val + MaxWidth
MaxWidth == 3
\* longest token list given to handle_input
MaxTokens == 4
\* longest sys.argv[1:] when handle_input is called without args
MaxArgv == 1
\* longest token list where handle_input is called twice, or run under fairness
MaxShort == 3

(***************************************************************************)
(* Python strings.                                                         *)
(***************************************************************************)
\* Python's None; no str equals it (a str holds one-character strings only).
None == <<"None">>

Whitespace == {" ", "\t", "\n"}

DigitValue ==
    [c \in {"0", "1", "2", "3", "4", "5", "6", "7", "8", "9"} |->
        CASE c = "0" -> 0 [] c = "1" -> 1 [] c = "2" -> 2 [] c = "3" -> 3
          [] c = "4" -> 4 [] c = "5" -> 5 [] c = "6" -> 6 [] c = "7" -> 7
          [] c = "8" -> 8 [] c = "9" -> 9]

DigitChar == <<"0", "1", "2", "3", "4", "5", "6", "7", "8", "9">>

IsDigit(c) == c \in DOMAIN DigitValue

LowerOf ==
    [c \in {"A", "B", "E", "G", "H", "I", "L", "M", "N", "P", "R", "T", "V"} |->
        CASE c = "A" -> "a" [] c = "B" -> "b" [] c = "E" -> "e" [] c = "G" -> "g"
          [] c = "H" -> "h" [] c = "I" -> "i" [] c = "L" -> "l" [] c = "M" -> "m"
          [] c = "N" -> "n" [] c = "P" -> "p" [] c = "R" -> "r" [] c = "T" -> "t"
          [] c = "V" -> "v"]

\* str.lower()
lower(s) == [i \in 1..Len(s) |-> IF s[i] \in DOMAIN LowerOf THEN LowerOf[s[i]] ELSE s[i]]

\* the first index at or after i that holds no whitespace (Len(s) + 1 if none)
RECURSIVE SkipSpaces(_, _)
SkipSpaces(s, i) ==
    IF i <= Len(s) /\ s[i] \in Whitespace THEN SkipSpaces(s, i + 1) ELSE i

\* the last index at or before j that holds no whitespace (0 if none)
RECURSIVE SkipSpacesBack(_, _)
SkipSpacesBack(s, j) ==
    IF j >= 1 /\ s[j] \in Whitespace THEN SkipSpacesBack(s, j - 1) ELSE j

\* str.strip()
strip(s) == SubSeq(s, SkipSpaces(s, 1), SkipSpacesBack(s, Len(s)))

\* str(n) of an int: a minus sign for a negative number, then its decimal
\* digits without leading zeros
RECURSIVE DigitsOf(_)
DigitsOf(n) ==
    IF n < 10 THEN <<DigitChar[n + 1]>>
    ELSE Append(DigitsOf(n \div 10), DigitChar[(n % 10) + 1])

py_str(n) == IF n < 0 THEN <<"-">> \o DigitsOf(-n) ELSE DigitsOf(n)

\* int(s)'s scan of the digits from index i: a digit extends the number, an
\* underscore is skipped when it follows a digit, anything else stops the scan
RECURSIVE ScanDigits(_, _, _, _)
ScanDigits(s, i, acc, prev) ==
    IF i > Len(s) THEN [pos |-> i, value |-> acc, prev |-> prev]
    ELSE IF IsDigit(s[i]) THEN ScanDigits(s, i + 1, acc * 10 + DigitValue[s[i]], "digit")
    ELSE IF s[i] = "_" /\ prev = "digit" THEN ScanDigits(s, i + 1, acc, "underscore")
    ELSE [pos |-> i, value |-> acc, prev |-> prev]

\* int(s) that stops at the first character it cannot use instead of
\* rejecting the string
py_int_prefix(s) ==
    LET a == SkipSpaces(s, 1)
        signed == a <= Len(s) /\ s[a] \in {"+", "-"}
        b == IF signed THEN a + 1 ELSE a
        d == ScanDigits(s, b, 0, "start")
    IN  IF d.prev = "digit"
        THEN [ok |-> TRUE, value |-> IF signed /\ s[a] = "-" THEN -d.value ELSE d.value]
        ELSE [ok |-> FALSE, value |-> 0]

\* int(s) in base 10: surrounding whitespace is skipped, one sign is taken,
\* the digits are scanned, and the whole string must be used up; otherwise
\* ValueError
py_int(s) ==
    LET a == SkipSpaces(s, 1)
        signed == a <= Len(s) /\ s[a] \in {"+", "-"}
        b == IF signed THEN a + 1 ELSE a
        d == ScanDigits(s, b, 0, "start")
        e == SkipSpaces(s, d.pos)
    IN  IF d.prev = "digit" /\ e > Len(s)
        THEN [ok |-> TRUE, value |-> IF signed /\ s[a] = "-" THEN -d.value ELSE d.value]
        ELSE [ok |-> FALSE, value |-> 0]

(***************************************************************************)
(* str_to_int_bounds_check                                                 *)
(***************************************************************************)
\* no call has been made yet
Pending == [kind |-> "pending"]

Returned(n) == [kind |-> "return", value |-> n]

\* argparse.ArgumentTypeError with the message built from val and the range
ArgumentTypeError(v, lo, hi) ==
    [kind |-> "ArgumentTypeError", val |-> v, min_val |-> lo, max_val |-> hi]

\* the range test with the upper bound included
InBounds_Inclusive(n, lo, hi) == lo <= n /\ n <= hi

\* the range test with "or" for the chained comparison
InBounds_Either(n, lo, hi) == lo <= n \/ n < hi

\* the range test of the walrus expression: min_val <= casted_int < max_val
InBounds(n, lo, hi) == lo <= n /\ n < hi

\* lines 157-160 once int(val) is through: casted is its outcome
BoundsCheck(v, lo, hi, casted) ==
    IF casted.ok /\ InBounds(casted.value, lo, hi)
    THEN Returned(casted.value)
    ELSE ArgumentTypeError(v, lo, hi)

str_to_int_bounds_check(v, lo, hi) == BoundsCheck(v, lo, hi, py_int(v))

(***************************************************************************)
(* The inputs of one call of str_to_int_bounds_check.                      *)
(***************************************************************************)
IntChars == {"0", "1", "-", "+", " ", "_", ".", "a"}

StringsOver(chars, n) == UNION {[1..k -> chars] : k \in 0..n}

MinVals == (0 - IntRange)..(10 + IntRange)

\* short strings over IntChars, and str(n) of every number near the ranges
RawStrings ==
    StringsOver(IntChars, MaxLen)
        \cup {py_str(n) : n \in (0 - IntRange - 2)..(10 + IntRange + MaxWidth + 1)}

IdleCli ==
    /\ args = [none |-> TRUE]
    /\ sys_argv = <<>>
    /\ pc = "idle"
    /\ parsed_args = [unbound |-> TRUE]
    /\ emitted = <<>>
    /\ exit_code = -1
    /\ returned = [unbound |-> TRUE]
    /\ parses = 0
    /\ calls = 0
    /\ first = [unbound |-> TRUE]

InitInt ==
    /\ val \in RawStrings
    /\ min_val \in MinVals
    /\ max_val \in (min_val - 1)..(min_val + MaxWidth)
    /\ ipc = "call"
    /\ result = Pending
    /\ IdleCli

CallBoundsCheck ==
    /\ ipc = "call"
    /\ result' = str_to_int_bounds_check(val, min_val, max_val)
    /\ ipc' = "done"
    /\ UNCHANGED <<val, min_val, max_val>>
    /\ UNCHANGED cliVars
    /\ UNCHANGED procVars

NextInt == CallBoundsCheck

SpecInt == InitInt /\ [][NextInt]_vars


(***************************************************************************)
(* Words of the command line, as Python strings.                           *)
(***************************************************************************)
W_average == <<"a", "v", "e", "r", "a", "g", "e">>
W_help == <<"h", "e", "l", "p">>
W_median == <<"m", "e", "d", "i", "a", "n">>
W_mean == <<"m", "e", "a", "n">>
W_mode == <<"m", "o", "d", "e">>
W_geometric == <<"g", "e", "o", "m", "e", "t", "r", "i", "c">>
W_pc == <<"p", "c">>
W_ps4 == <<"p", "s", "4">>
W_xbox == <<"x", "b", "o", "x">>
W_switch == <<"s", "w", "i", "t", "c", "h">>
O_h == <<"-", "h">>
O_help == <<"-", "-", "h", "e", "l", "p">>
O_V == <<"-", "V">>
O_version == <<"-", "-", "v", "e", "r", "s", "i", "o", "n">>
O_s == <<"-", "s">>
O_stats == <<"-", "-", "s", "t", "a", "t", "s">>
O_p == <<"-", "p">>
O_platform == <<"-", "-", "p", "l", "a", "t", "f", "o", "r", "m">>
O_t == <<"-", "t">>
O_timerange == <<"-", "-", "t", "i", "m", "e", "r", "a", "n", "g", "e">>
O_m == <<"-", "m">>
O_maxrank == <<"-", "-", "m", "a", "x", "r", "a", "n", "k">>
O_r == <<"-", "r">>
O_radiant == <<"-", "-", "r", "a", "d", "i", "a", "n", "t">>
O_b == <<"-", "b">>
O_buyers == <<"-", "-", "b", "u", "y", "e", "r", "s">>
O_d == <<"-", "d">>
O_detailed_report == <<"-", "-", "d", "e", "t", "a", "i", "l", "e", "d", "-", "r", "e", "p", "o", "r", "t">>

\* the tokens handle_input is tried on
Tokens ==
    {W_average, W_help, O_h, O_help, O_V, O_t, O_m, O_r, O_s,
     <<"b", "i", "t", "e">>, <<" ", "A", "v", "e", "r", "a", "g", "e">>, <<"M", "E", "A", "N">>,
     <<"5">>, <<"6", "0">>, <<"-", "-", "b", "o", "g", "u", "s">>}

(***************************************************************************)
(* The parser that _create_parser builds.  The tokens of this model are    *)
(* whole option strings and plain words: no "--opt=value", no abbreviated  *)
(* long option, no clustered short options and no "--".                    *)
(***************************************************************************)
\* DEFAULT_TIME, the default of --timerange
DEFAULT_TIME == 10
\* min_time_range and max_time_range, the range of --timerange
min_time_range == 1
max_time_range == 60

VERSION == "0.0.5"

TopUsage == "warmac <command> [options]"
AvgUsage == "warmac average [-s <stat>] [-p <platform>] [-t <days>] [-m | -r] [-b] [-v] item"
HelpUsage == "warmac help subcommand"

avg_funcs == {W_median, W_mean, W_mode, W_geometric}
platforms == {W_pc, W_ps4, W_xbox, W_switch}
possible_subcommands == {W_average, W_help}

\* the option strings of each parser, with the dest (or action) of each
TopOptions ==
    {[strings |-> {O_h, O_help}, dest |-> "help"],
     [strings |-> {O_V, O_version}, dest |-> "version"]}

AvgOptions ==
    {[strings |-> {O_s, O_stats}, dest |-> "statistic"],
     [strings |-> {O_p, O_platform}, dest |-> "platform"],
     [strings |-> {O_t, O_timerange}, dest |-> "timerange"],
     [strings |-> {O_m, O_maxrank}, dest |-> "maxrank"],
     [strings |-> {O_r, O_radiant}, dest |-> "radiant"],
     [strings |-> {O_b, O_buyers}, dest |-> "use_buyers"],
     [strings |-> {O_d, O_detailed_report}, dest |-> "detailed_report"],
     [strings |-> {O_h, O_help}, dest |-> "help"]}

HelpOptions == {[strings |-> {O_h, O_help}, dest |-> "help"]}

OptionStrings(options) == UNION {o.strings : o \in options}

DestOf(options, tok) == (CHOOSE o \in options : tok \in o.strings).dest

\* the store_true options of the average parser
AvgFlags == {"maxrank", "radiant", "use_buyers", "detailed_report"}

\* a parser without the mutually exclusive group
Conflicts_none(dest) == {}

\* add_mutually_exclusive_group: the options a given option conflicts with
Conflicts(dest) ==
    IF dest = "maxrank" THEN {"radiant"}
    ELSE IF dest = "radiant" THEN {"maxrank"}
    ELSE {}

\* the defaults with the mean for the median and the upper bound for the days
AvgDefaults_other ==
    [item |-> None, statistic |-> W_mean, platform |-> W_pc,
     timerange |-> max_time_range, maxrank |-> FALSE, radiant |-> FALSE,
     use_buyers |-> FALSE, detailed_report |-> FALSE]

\* the namespace of the average parser before any token is read
AvgDefaults ==
    [item |-> None, statistic |-> W_median, platform |-> W_pc,
     timerange |-> DEFAULT_TIME, maxrank |-> FALSE, radiant |-> FALSE,
     use_buyers |-> FALSE, detailed_report |-> FALSE]

\* argparse's test for a token such as -5 or -.5
NegativeNumberLike(tok) ==
    /\ Len(tok) >= 2
    /\ tok[1] = "-"
    /\ \/ \A k \in 2..Len(tok) : IsDigit(tok[k])
       \/ \E dot \in 2..(Len(tok) - 1) :
            /\ tok[dot] = "."
            /\ \A k \in 2..Len(tok) : k # dot => IsDigit(tok[k])

\* argparse's view of one token: "O" an option string, "A" an argument
Classify(tok, options) ==
    IF tok = <<>> THEN "A"
    ELSE IF tok[1] # "-" THEN "A"
    ELSE IF tok \in OptionStrings(options) THEN "O"
    ELSE IF Len(tok) = 1 THEN "A"
    ELSE IF NegativeNumberLike(tok) THEN "A"
    ELSE IF \E k \in 1..Len(tok) : tok[k] = " " THEN "A"
    ELSE "O"

(***************************************************************************)
(* What a parse does: it hands back a namespace, or it writes and exits.   *)
(***************************************************************************)
Write(stream, text) == [stream |-> stream, text |-> text]

HelpText(usage) == [kind |-> "help", usage |-> usage]

VersionText == [kind |-> "version", version |-> VERSION]

\* f"{self.usage}: error: {message}\n": the pieces the f-string joins, and
\* the values of the two replacement fields
ErrorText(usage, message) ==
    [kind |-> "error", form |-> <<"usage", ": error: ", "message", "\n">>,
     usage |-> usage, message |-> message]

\* print_usage: the usage line that ArgumentParser.error writes first
UsageText(usage) == [kind |-> "usage", usage |-> usage]

Message(what, about) == [what |-> what, about |-> about]

Parsed(ns, extras) == [kind |-> "parsed", namespace |-> ns, extras |-> extras]

Exit(status, writes) == [kind |-> "exit", status |-> status, writes |-> writes]

\* ArgumentParser.error, which WarMACParser overrides: the usage line, then
\* the message after the name of the program, and status 2
error_argparse(usage, message) ==
    Exit(2, <<Write("stderr", UsageText(usage)),
              Write("stderr", [kind |-> "error",
                               form |-> <<"prog", ": error: ", "message", "\n">>,
                               usage |-> usage, message |-> message])>>)

\* WarMACParser.error that exits with the status its docstring names
error_status_2(usage, message) == Exit(2, <<Write("stderr", ErrorText(usage, message))>>)

\* WarMACParser.error: self.exit(1, ...), the message going to stderr
error(usage, message) == Exit(1, <<Write("stderr", ErrorText(usage, message))>>)

\* action="help" that writes to stderr
HelpAction_stderr(usage) == Exit(0, <<Write("stderr", HelpText(usage))>>)

\* action="help": parser.print_help() on stdout, then parser.exit()
HelpAction(usage) == Exit(0, <<Write("stdout", HelpText(usage))>>)

\* action="version": the version on stdout, then parser.exit()
VersionAction == Exit(0, <<Write("stdout", VersionText)>>)

\* a converted option value, or the message of the error it caused
Converted(value) == [ok |-> TRUE, value |-> value, message |-> [what |-> "", about |-> <<>>]]
Refused(message) == [ok |-> FALSE, value |-> <<>>, message |-> message]

\* a converter that swallows the ArgumentTypeError and keeps the default
TimerangeValue_suppress(r) ==
    IF r.kind = "return" THEN Converted(r.value) ELSE Converted(DEFAULT_TIME)

\* type=lambda x: str_to_int_bounds_check(x, min_time_range, max_time_range):
\* argparse turns the ArgumentTypeError r into the message of an error
TimerangeValue(r) ==
    IF r.kind = "return"
    THEN Converted(r.value)
    ELSE Refused([what |-> "argument -t/--timerange: not an integer in the valid range",
                  about |-> <<r.val>>, min_val |-> r.min_val, max_val |-> r.max_val])

\* type=lambda s: s.lower().strip() followed by the choices test
ChoiceValue(what, v, choices) ==
    IF v \in choices THEN Converted(v) ELSE Refused(Message(what, <<v>>))

\* the converters with the upper bound of --timerange taken in
AvgConvert_inclusive(dest, tok) ==
    IF dest = "timerange"
    THEN TimerangeValue(str_to_int_bounds_check(tok, min_time_range, max_time_range + 1))
    ELSE IF dest = "statistic"
    THEN ChoiceValue("argument -s/--stats: invalid choice", strip(lower(tok)), avg_funcs)
    ELSE ChoiceValue("argument -p/--platform: invalid choice", strip(lower(tok)), platforms)

\* the type and choices of a one-argument option of the average parser
AvgConvert(dest, tok) ==
    IF dest = "timerange"
    THEN TimerangeValue(str_to_int_bounds_check(tok, min_time_range, max_time_range))
    ELSE IF dest = "statistic"
    THEN ChoiceValue("argument -s/--stats: invalid choice", strip(lower(tok)), avg_funcs)
    ELSE ChoiceValue("argument -p/--platform: invalid choice", strip(lower(tok)), platforms)

\* the end of the average parse: string defaults go through their type, and
\* the required positional must have been seen
AvgFinish(st) ==
    IF "item" \notin st.seen
    THEN error(AvgUsage, Message("the following arguments are required", <<<<"i", "t", "e", "m">>>>))
    ELSE Parsed([st.ns EXCEPT
                    !.statistic = IF "statistic" \in st.seen THEN @ ELSE strip(lower(@)),
                    !.platform = IF "platform" \in st.seen THEN @ ELSE strip(lower(@))],
                st.extras)

\* the parse goes on at token i with the state st
Continue(i, st) == [kind |-> "continue", i |-> i, st |-> st]

\* setattr(namespace, dest, value), or the error of the conversion
AvgStore(i, st, dest, conv) ==
    IF conv.ok
    THEN Continue(i, [st EXCEPT !.ns[dest] = conv.value, !.seen = @ \cup {dest}])
    ELSE error(AvgUsage, conv.message)

\* an option string of the average parser at token i
AvgOption(toks, i, st, dest) ==
    IF dest = "help" THEN HelpAction(AvgUsage)
    ELSE IF dest \in AvgFlags
    THEN IF Conflicts(dest) \cap st.nondefault # {}
         THEN error(AvgUsage, Message("not allowed with argument", <<toks[i]>>))
         ELSE Continue(i + 1, [st EXCEPT !.ns[dest] = TRUE, !.seen = @ \cup {dest},
                                         !.nondefault = @ \cup {dest}])
    ELSE IF i + 1 > Len(toks) \/ Classify(toks[i + 1], AvgOptions) # "A"
    THEN error(AvgUsage, Message("expected one argument", <<toks[i]>>))
    ELSE AvgStore(i + 2, st, dest, AvgConvert(dest, toks[i + 1]))

\* the average parser at token i: a positional, an option, or an extra
AvgStep(toks, i, st) ==
    IF Classify(toks[i], AvgOptions) = "A"
    THEN IF "item" \notin st.seen
         THEN Continue(i + 1, [st EXCEPT !.ns.item = strip(toks[i]),
                                         !.seen = @ \cup {"item"}])
         ELSE Continue(i + 1, [st EXCEPT !.extras = Append(@, toks[i])])
    ELSE IF toks[i] \notin OptionStrings(AvgOptions)
    THEN Continue(i + 1, [st EXCEPT !.extras = Append(@, toks[i])])
    ELSE AvgOption(toks, i, st, DestOf(AvgOptions, toks[i]))

\* the average parser, token by token from index i
RECURSIVE AvgWalk(_, _, _)
RECURSIVE AvgAfter(_, _)
AvgWalk(toks, i, st) ==
    IF i > Len(toks) THEN AvgFinish(st) ELSE AvgAfter(toks, AvgStep(toks, i, st))

AvgAfter(toks, r) == IF r.kind = "continue" THEN AvgWalk(toks, r.i, r.st) ELSE r

AvgParse(toks) ==
    AvgWalk(toks, 1, [ns |-> AvgDefaults, extras |-> <<>>, seen |-> {}, nondefault |-> {}])

\* the positional of the help parser: type=lambda s: s.strip().lower(), then
\* the choices test
HelpSubcommandValue(i, st, v) ==
    IF v \in possible_subcommands
    THEN Continue(i, [st EXCEPT !.ns.subcommand = v, !.seen = @ \cup {"subcommand"}])
    ELSE error(HelpUsage, Message("argument subcommand: invalid choice", <<v>>))

\* the help parser at token i
HelpStep(toks, i, st) ==
    IF Classify(toks[i], HelpOptions) = "A"
    THEN IF "subcommand" \notin st.seen
         THEN HelpSubcommandValue(i + 1, st, lower(strip(toks[i])))
         ELSE Continue(i + 1, [st EXCEPT !.extras = Append(@, toks[i])])
    ELSE IF toks[i] \notin OptionStrings(HelpOptions)
    THEN Continue(i + 1, [st EXCEPT !.extras = Append(@, toks[i])])
    ELSE HelpAction(HelpUsage)

\* the help parser, token by token from index i
RECURSIVE HelpWalk(_, _, _)
RECURSIVE HelpAfter(_, _)
HelpWalk(toks, i, st) ==
    IF i > Len(toks) THEN Parsed(st.ns, st.extras)
    ELSE HelpAfter(toks, HelpStep(toks, i, st))

HelpAfter(toks, r) == IF r.kind = "continue" THEN HelpWalk(toks, r.i, r.st) ELSE r

HelpParse(toks) ==
    HelpWalk(toks, 1, [ns |-> [subcommand |-> None], extras |-> <<>>, seen |-> {}])

\* the subparsers action after the sub-parser ran: its exit, or its
\* namespace under the command's name and its extras after the top ones
SubParsed(name, extras, sub) ==
    IF sub.kind = "exit" THEN sub
    ELSE Parsed([subparser |-> name] @@ sub.namespace, extras \o sub.extras)

\* the subparsers action: the command must be a choice, and its parser
\* takes every token after it
SubParsersAction(name, rest, extras) ==
    IF name \notin possible_subcommands
    THEN error(TopUsage, Message("argument : invalid choice", <<name>>))
    ELSE IF name = W_average THEN SubParsed(name, extras, AvgParse(rest))
    ELSE SubParsed(name, extras, HelpParse(rest))

\* the top-level parser from index i: its options, then the subparsers
\* action, which takes the first argument and every token after it
RECURSIVE TopWalk(_, _, _)
TopWalk(toks, i, extras) ==
    IF i > Len(toks) THEN Parsed([subparser |-> None], extras)
    ELSE IF Classify(toks[i], TopOptions) = "A"
    THEN SubParsersAction(toks[i], SubSeq(toks, i + 1, Len(toks)), extras)
    ELSE IF toks[i] \notin OptionStrings(TopOptions)
    THEN TopWalk(toks, i + 1, Append(extras, toks[i]))
    ELSE IF DestOf(TopOptions, toks[i]) = "help" THEN HelpAction(TopUsage)
    ELSE VersionAction

\* tokens that no parser took are an error of the top-level parser
CheckExtras(r) ==
    IF r.kind = "parsed" /\ r.extras # <<>>
    THEN error(TopUsage, Message("unrecognized arguments", r.extras))
    ELSE r

\* ArgumentParser.parse_args
parse_args(toks) == CheckExtras(TopWalk(toks, 1, <<>>))

(***************************************************************************)
(* handle_input, statement by statement.  A frame is the state of one      *)
(* call; every step maps the frame before a statement to the frame after.  *)
(***************************************************************************)
\* handle_input(None), and handle_input(a list of tokens)
ArgsNone == [none |-> TRUE]
ArgsList(toks) == [none |-> FALSE, list |-> toks]

\* a name that is not bound yet
Unbound == [unbound |-> TRUE]

\* the process is still running
Running == -1

\* Python's truth value of None or a str
Truthy(v) == v # None /\ v # <<>>

\* parse_args(args): sys.argv[1:] stands in for args when it is None
TokensOf(f) == IF f.args = ArgsNone THEN f.sys_argv ELSE f.args.list

InitialFrame(a, argv) ==
    [args |-> a, sys_argv |-> argv, pc |-> "parse_args", parsed_args |-> Unbound,
     emitted |-> <<>>, exit_code |-> Running, returned |-> Unbound, parses |-> 0]

\* SystemExit leaves handle_input: the writes are out, the status is set
Terminate(f, status, writes) ==
    [f EXCEPT !.pc = "exited", !.emitted = @ \o writes, !.exit_code = status]

\* one more call of parser.parse_args
Counted(f) == [f EXCEPT !.parses = @ + 1]

\* after a parse: SystemExit leaves handle_input, or the namespace goes on
AfterParse(f, r, next_pc) ==
    IF r.kind = "exit" THEN Terminate(Counted(f), r.status, r.writes)
    ELSE [Counted(f) EXCEPT !.pc = next_pc]

\* lines 429-430: parser = _create_parser(); parsed_args = parser.parse_args(args)
BindParsedArgs(f, r) ==
    IF r.kind = "exit" THEN f ELSE [f EXCEPT !.parsed_args = r.namespace]

StepParseArgs(f) ==
    AfterParse(BindParsedArgs(f, parse_args(TokensOf(f))), parse_args(TokensOf(f)),
               "if_not_subparser")

\* lines 431-433 left out: the namespace without a subcommand is returned
StepNoCommand_return(f) == [f EXCEPT !.pc = "returned", !.returned = f.parsed_args]

\* lines 431-433 with the help text on stdout and status 0
StepNoCommand_quiet(f) ==
    Terminate(f, 0, <<Write("stdout", HelpText(TopUsage))>>)

\* lines 431-433: parser.print_help(sys.stderr); sys.exit(1)
StepNoCommand(f) ==
    Terminate(f, 1, <<Write("stderr", HelpText(TopUsage))>>)

\* line 431 is false: on to line 434
StepHasCommand(f) == [f EXCEPT !.pc = "if_help"]

\* a nested parse whose SystemExit is swallowed: its writes are out, and
\* handle_input goes on to line 438
FallThrough(f, r) ==
    IF r.kind = "exit"
    THEN [Counted(f) EXCEPT !.emitted = @ \o r.writes, !.pc = "print_help"]
    ELSE [Counted(f) EXCEPT !.pc = "print_help"]

StepHelpSubcommand_falls_through(f) ==
    FallThrough(f, parse_args(<<f.parsed_args.subcommand, O_help>>))

\* lines 435-437 without the nested parse
StepHelpSubcommand_skip(f) == [f EXCEPT !.pc = "print_help"]

\* lines 435-437: parser.parse_args([parsed_args.subcommand, "--help"]), whose
\* result is dropped
StepHelpSubcommand(f) ==
    AfterParse(f, parse_args(<<f.parsed_args.subcommand, O_help>>), "print_help")

\* line 435 is false: on to line 438
StepHelpNoSubcommand(f) == [f EXCEPT !.pc = "print_help"]

\* lines 438-439 that go back to the test of line 434
StepPrintHelp_again(f) == [f EXCEPT !.pc = "if_help"]

\* lines 438-439 with the status of an error
StepPrintHelp_status_1(f) ==
    Terminate(f, 1, <<Write("stderr", HelpText(TopUsage))>>)

\* lines 438-439: parser.print_help(sys.stderr); sys.exit(0)
StepPrintHelp(f) ==
    Terminate(f, 0, <<Write("stderr", HelpText(TopUsage))>>)

\* line 441: return parsed_args
StepReturn(f) == [f EXCEPT !.pc = "returned", !.returned = f.parsed_args]

\* the guards of the steps
AtParseArgs(f) == f.pc = "parse_args"
AtNoCommand(f) == f.pc = "if_not_subparser" /\ ~Truthy(f.parsed_args.subparser)
AtHasCommand(f) == f.pc = "if_not_subparser" /\ Truthy(f.parsed_args.subparser)
AtHelpSubcommand(f) ==
    /\ f.pc = "if_help"
    /\ f.parsed_args.subparser = W_help
    /\ Truthy(f.parsed_args.subcommand)
AtHelpNoSubcommand(f) ==
    /\ f.pc = "if_help"
    /\ f.parsed_args.subparser = W_help
    /\ ~Truthy(f.parsed_args.subcommand)
AtPrintHelp(f) == f.pc = "print_help"
AtReturn(f) == f.pc = "if_help" /\ f.parsed_args.subparser # W_help

\* the one step a frame can take
StepOf(f) ==
    IF AtParseArgs(f) THEN StepParseArgs(f)
    ELSE IF AtNoCommand(f) THEN StepNoCommand(f)
    ELSE IF AtHasCommand(f) THEN StepHasCommand(f)
    ELSE IF AtHelpSubcommand(f) THEN StepHelpSubcommand(f)
    ELSE IF AtHelpNoSubcommand(f) THEN StepHelpNoSubcommand(f)
    ELSE IF AtPrintHelp(f) THEN StepPrintHelp(f)
    ELSE StepReturn(f)

Ended(f) == f.pc \in {"exited", "returned"}

RECURSIVE RunToEnd(_)
RunToEnd(f) == IF Ended(f) THEN f ELSE RunToEnd(StepOf(f))

\* what a caller of handle_input(a) can observe: what was written where,
\* and the exit status or the returned namespace
Outcome(f) == [emitted |-> f.emitted, exit_code |-> f.exit_code, returned |-> f.returned]

handle_input(a, argv) == Outcome(RunToEnd(InitialFrame(a, argv)))

(***************************************************************************)
(* The process that calls handle_input once.                               *)
(***************************************************************************)
TokenLists(n) == UNION {[1..k -> Tokens] : k \in 0..n}

Frame ==
    [args |-> args, sys_argv |-> sys_argv, pc |-> pc, parsed_args |-> parsed_args,
     emitted |-> emitted, exit_code |-> exit_code, returned |-> returned,
     parses |-> parses]

Becomes(f) ==
    /\ args' = f.args
    /\ sys_argv' = f.sys_argv
    /\ pc' = f.pc
    /\ parsed_args' = f.parsed_args
    /\ emitted' = f.emitted
    /\ exit_code' = f.exit_code
    /\ returned' = f.returned
    /\ parses' = f.parses
    /\ UNCHANGED intVars

IdleInt ==
    /\ val = <<>>
    /\ min_val = 0
    /\ max_val = 0
    /\ ipc = "idle"
    /\ result = Pending

Init ==
    /\ \/ \E toks \in TokenLists(MaxTokens) :
            /\ args = ArgsList(toks)
            /\ sys_argv = <<>>
       \/ \E argv \in TokenLists(MaxArgv) :
            /\ args = ArgsNone
            /\ sys_argv = argv
    /\ pc = "parse_args"
    /\ parsed_args = Unbound
    /\ emitted = <<>>
    /\ exit_code = Running
    /\ returned = Unbound
    /\ parses = 0
    /\ calls = 0
    /\ first = Unbound
    /\ IdleInt

\* a statement of the running call
Step(f) == Becomes(f) /\ UNCHANGED procVars

ParseArgs == AtParseArgs(Frame) /\ Step(StepParseArgs(Frame))
NoCommand == AtNoCommand(Frame) /\ Step(StepNoCommand(Frame))
HasCommand == AtHasCommand(Frame) /\ Step(StepHasCommand(Frame))
HelpSubcommand == AtHelpSubcommand(Frame) /\ Step(StepHelpSubcommand(Frame))
HelpNoSubcommand == AtHelpNoSubcommand(Frame) /\ Step(StepHelpNoSubcommand(Frame))
PrintHelp == AtPrintHelp(Frame) /\ Step(StepPrintHelp(Frame))
Return == AtReturn(Frame) /\ Step(StepReturn(Frame))

Next ==
    \/ ParseArgs
    \/ NoCommand
    \/ HasCommand
    \/ HelpSubcommand
    \/ HelpNoSubcommand
    \/ PrintHelp
    \/ Return

Spec == Init /\ [][Next]_vars

(***************************************************************************)
(* The process that calls handle_input a second time with the same         *)
(* argument, after the first call returned or after it caught SystemExit   *)
(* (as the tests do with pytest.raises).                                   *)
(***************************************************************************)
InitShort ==
    /\ \/ \E toks \in TokenLists(MaxShort) :
            /\ args = ArgsList(toks)
            /\ sys_argv = <<>>
       \/ \E argv \in TokenLists(MaxArgv) :
            /\ args = ArgsNone
            /\ sys_argv = argv
    /\ pc = "parse_args"
    /\ parsed_args = Unbound
    /\ emitted = <<>>
    /\ exit_code = Running
    /\ returned = Unbound
    /\ parses = 0
    /\ calls = 0
    /\ first = Unbound
    /\ IdleInt

\* a second call in which what the first one wrote is still counted
CallAgain_accumulate ==
    /\ Ended(Frame)
    /\ calls = 0
    /\ first' = Outcome(Frame)
    /\ calls' = 1
    /\ Becomes([InitialFrame(args, sys_argv) EXCEPT !.emitted = emitted])

\* the second call: parser, parsed_args are locals of the new call, built
\* anew by _create_parser(); the argument and sys.argv are what they were
CallAgain ==
    /\ Ended(Frame)
    /\ calls = 0
    /\ first' = Outcome(Frame)
    /\ calls' = 1
    /\ Becomes(InitialFrame(args, sys_argv))

NextTwice ==
    \/ Next
    \/ CallAgain

SpecTwice == InitShort /\ [][NextTwice]_vars

(***************************************************************************)
(* One call of handle_input that keeps running: the interpreter does not   *)
(* stop inside a call, so a call that has not ended gets to another        *)
(* statement (which one, Next says).                                       *)
(***************************************************************************)
\* the values of pc
ProgramPoints ==
    {"parse_args", "if_not_subparser", "if_help", "print_help", "exited", "returned"}

\* the call is at a statement and moves on
Proceeds == ~Ended(Frame) /\ pc' \in ProgramPoints

SpecLive == InitShort /\ [][Next]_vars /\ WF_pc(Proceeds)

(***************************************************************************)
(* Claims about str_to_int_bounds_check (checked under SpecInt).           *)
(***************************************************************************)
\* the value of a digit string, from its last digit
RECURSIVE DecValue(_)
DecValue(ds) ==
    IF ds = <<>> THEN 0
    ELSE DecValue(SubSeq(ds, 1, Len(ds) - 1)) * 10 + DigitValue[ds[Len(ds)]]

\* s is an optional sign followed by decimal digits, and nothing else
PlainSyntax(s) ==
    LET body == IF s # <<>> /\ s[1] \in {"+", "-"} THEN Tail(s) ELSE s
    IN  body # <<>> /\ \A k \in 1..Len(body) : IsDigit(body[k])

\* s is what int() takes for a base-10 integer: whitespace, then an optional
\* sign, then digits in which single underscores may stand between two
\* digits, then whitespace
PyIntSyntax(s) ==
    \E i \in 1..Len(s), j \in 1..Len(s) :
        /\ i <= j
        /\ \A k \in 1..(i - 1) : s[k] \in Whitespace
        /\ \A k \in (j + 1)..Len(s) : s[k] \in Whitespace
        /\ LET core == SubSeq(s, i, j)
               body == IF core[1] \in {"+", "-"} THEN Tail(core) ELSE core
           IN  /\ body # <<>>
               /\ IsDigit(body[1])
               /\ IsDigit(body[Len(body)])
               /\ \A k \in 1..Len(body) : IsDigit(body[k]) \/ body[k] = "_"
               /\ \A k \in 1..(Len(body) - 1) : ~(body[k] = "_" /\ body[k + 1] = "_")

\* the integer such a string denotes
DenotedValue(s) ==
    LET magnitude == DecValue(SelectSeq(s, IsDigit))
    IN  IF \E k \in 1..Len(s) : s[k] = "-" THEN -magnitude ELSE magnitude

\* C1 as stated: the call returns n exactly when val is an optional sign
\* followed by decimal digits denoting n with min_val <= n < max_val, and
\* raises ArgumentTypeError for every other input.
C1_PlainIntegerOnly ==
    ipc = "done" =>
        IF PlainSyntax(val) /\ min_val <= DenotedValue(val) /\ DenotedValue(val) < max_val
        THEN result = Returned(DenotedValue(val))
        ELSE result.kind = "ArgumentTypeError"

\* C1 (amended): the call returns n exactly when val is what int() takes
\* for a base-10 integer denoting n (surrounding whitespace and single
\* underscores between digits included) and min_val <= n < max_val; for every
\* other input it raises ArgumentTypeError carrying val and the range.
C1_BoundedIntParse ==
    ipc = "done" =>
        IF PyIntSyntax(val) /\ min_val <= DenotedValue(val) /\ DenotedValue(val) < max_val
        THEN result = Returned(DenotedValue(val))
        ELSE result = ArgumentTypeError(val, min_val, max_val)

\* a string with whitespace and an underscore was taken as the integer 10
C1_Witness ==
    /\ ipc = "done"
    /\ val \in {<<"1", "_", "0">>, <<" ", "1", "0">>}
    /\ result = Returned(10)

\* C2: the range is half-open: with min_val < max_val, str(min_val) is
\* returned as min_val, and str(max_val), str(min_val - 1) and
\* str(max_val + 1) all raise ArgumentTypeError.
C2_HalfOpenRange ==
    (ipc = "done" /\ min_val < max_val) =>
        /\ val = py_str(min_val) => result = Returned(min_val)
        /\ val \in {py_str(max_val), py_str(min_val - 1), py_str(max_val + 1)}
              => result.kind = "ArgumentTypeError"

\* the two-digit upper bound itself was refused
C2_Witness ==
    /\ ipc = "done"
    /\ min_val < max_val
    /\ val = py_str(max_val)
    /\ Len(val) = 2
    /\ result.kind = "ArgumentTypeError"

\* C3: with min_val >= max_val every input raises ArgumentTypeError, the
\* strings that denote integers included.
C3_EmptyRangeAlwaysFails ==
    (ipc = "done" /\ min_val >= max_val) => result.kind = "ArgumentTypeError"

\* str(min_val) itself was refused by an empty range
C3_Witness ==
    /\ ipc = "done"
    /\ min_val >= max_val
    /\ val = py_str(min_val)
    /\ result.kind = "ArgumentTypeError"

(***************************************************************************)
(* Claims about handle_input (checked under Spec).                         *)
(***************************************************************************)
\* the tokens of the call that is running or has ended
Toks == TokensOf(Frame)

\* the last thing written is the message of a parser error
EndedInParseError ==
    /\ pc = "exited"
    /\ emitted # <<>>
    /\ emitted[Len(emitted)].text.kind = "error"

\* C4: with no token, or tokens that parse without error and select no
\* subcommand, handle_input writes the top-level help text to stderr and the
\* process exits with status 1; nothing is returned.
C4_NoCommandExitsWith1 ==
    (/\ Ended(Frame)
     /\ \/ Toks = <<>>
        \/ parsed_args # Unbound /\ ~Truthy(parsed_args.subparser))
    => /\ pc = "exited"
       /\ exit_code = 1
       /\ emitted = <<Write("stderr", HelpText(TopUsage))>>
       /\ returned = Unbound

\* handle_input([]) has ended
C4_Witness ==
    /\ pc = "exited"
    /\ args = ArgsList(<<>>)
    /\ exit_code = 1
    /\ emitted = <<Write("stderr", HelpText(TopUsage))>>

\* C5: every malformed invocation (one that ends in a parser error: an
\* unrecognized subcommand or option, a refused option value, a missing
\* positional, both exclusive flags) exits with status 2.
C5_ParseErrorExitsWith2 == EndedInParseError => exit_code = 2

UsageOf(sub) == IF sub = W_average THEN AvgUsage ELSE HelpUsage

\* C7: when the help subcommand was given a recognized subcommand,
\* handle_input writes that subcommand's help text, the process exits with
\* status 0, and what can be observed (texts, streams, status) is what
\* handle_input([subcommand, "--help"]) gives.
C7_HelpSubcommandIsSubcommandHelp ==
    (/\ Ended(Frame)
     /\ parsed_args # Unbound
     /\ parsed_args.subparser = W_help
     /\ Truthy(parsed_args.subcommand))
    => /\ parsed_args.subcommand \in possible_subcommands
       /\ pc = "exited"
       /\ exit_code = 0
       /\ Len(emitted) = 1
       /\ emitted[1].text = HelpText(UsageOf(parsed_args.subcommand))
       /\ Outcome(Frame) = handle_input(ArgsList(<<parsed_args.subcommand, O_help>>), <<>>)

\* handle_input(["help", "average"]) has ended with the help of average
C7_Witness ==
    /\ pc = "exited"
    /\ args = ArgsList(<<W_help, W_average>>)
    /\ emitted = <<Write("stdout", HelpText(AvgUsage))>>
    /\ exit_code = 0

\* C8: handle_input(["help"]) writes the top-level help text to stderr and
\* the process exits with status 0; nothing is returned.
C8_BareHelpExitsWith0 ==
    (Ended(Frame) /\ Toks = <<W_help>>)
    => /\ pc = "exited"
       /\ exit_code = 0
       /\ emitted = <<Write("stderr", HelpText(TopUsage))>>
       /\ returned = Unbound

\* handle_input(["help"]) has ended
C8_Witness ==
    /\ pc = "exited"
    /\ args = ArgsList(<<W_help>>)
    /\ exit_code = 0
    /\ emitted # <<>>

\* a token the top-level parser passes over as an option it does not know
UnknownDashWord(tok) ==
    /\ Len(tok) >= 2
    /\ tok[1] = "-"
    /\ ~IsDigit(tok[2]) /\ tok[2] # "."
    /\ \A k \in 1..Len(tok) : tok[k] # " "
    /\ tok \notin {O_h, O_help, O_V, O_version}

\* -h or --help is given as a global option: nothing but options the
\* top-level parser does not know stands before it
GlobalHelpGiven(toks) ==
    \E k \in 1..Len(toks) :
        /\ toks[k] \in {O_h, O_help}
        /\ \A j \in 1..(k - 1) : UnknownDashWord(toks[j])

\* C9 as stated: with the global --help or -h the top-level help text goes
\* to the error stream and the process exits with status 0.
C9_GlobalHelpOnStderr ==
    (Ended(Frame) /\ GlobalHelpGiven(Toks))
    => /\ pc = "exited"
       /\ exit_code = 0
       /\ emitted = <<Write("stderr", HelpText(TopUsage))>>

\* C9 (amended): with the global --help or -h the top-level help text goes
\* to standard output and the process exits with status 0.
C9_GlobalHelpOnStdout ==
    (Ended(Frame) /\ GlobalHelpGiven(Toks))
    => /\ pc = "exited"
       /\ exit_code = 0
       /\ emitted = <<Write("stdout", HelpText(TopUsage))>>
       /\ returned = Unbound

\* handle_input(["--help"]) has ended
C9_Witness ==
    /\ pc = "exited"
    /\ args = ArgsList(<<O_help>>)
    /\ exit_code = 0
    /\ emitted = <<Write("stdout", HelpText(TopUsage))>>

\* the token list is ["average", item] and item is no option
AverageItemOnly(toks) ==
    /\ Len(toks) = 2
    /\ toks[1] = W_average
    /\ toks[2] = <<>> \/ toks[2][1] # "-"

\* the namespace of the average subcommand with every option at its default
DefaultAverage(item) ==
    [subparser |-> W_average, item |-> item, statistic |-> W_median,
     platform |-> W_pc, timerange |-> 10, maxrank |-> FALSE, radiant |-> FALSE,
     use_buyers |-> FALSE, detailed_report |-> FALSE]

\* y is x without its leading and trailing whitespace
IsTrimOf(y, x) ==
    \E lead \in 0..Len(x), trail \in 0..Len(x) :
        /\ lead + Len(y) + trail = Len(x)
        /\ \A k \in 1..Len(x) :
              IF k <= lead \/ k > lead + Len(y)
              THEN x[k] \in Whitespace
              ELSE x[k] = y[k - lead]
        /\ y # <<>> => (y[1] \notin Whitespace /\ y[Len(y)] \notin Whitespace)

\* C10 as stated: handle_input(["average", item]) returns, without the
\* process exiting, the namespace with the given item and every default.
C10_ReturnsGivenItem ==
    (Ended(Frame) /\ AverageItemOnly(Toks))
    => /\ pc = "returned"
       /\ exit_code = Running
       /\ returned = DefaultAverage(Toks[2])

\* C10 (amended): handle_input(["average", item]) returns, without the
\* process exiting and without writing anything, the namespace with the
\* given item less its surrounding whitespace and every default.
C10_ReturnsTrimmedItem ==
    (Ended(Frame) /\ AverageItemOnly(Toks))
    => /\ pc = "returned"
       /\ exit_code = Running
       /\ emitted = <<>>
       /\ IsTrimOf(returned.item, Toks[2])
       /\ returned = DefaultAverage(returned.item)

\* handle_input(["average", " Average"]) has returned the item "Average"
C10_Witness ==
    /\ pc = "returned"
    /\ Len(Toks) = 2
    /\ Toks[1] = W_average
    /\ Len(Toks[2]) = 8
    /\ Len(returned.item) = 7
    /\ returned.timerange = 10

\* the average subcommand is reached at token a: only options the top-level
\* parser does not know stand before it
AverageAt(toks, a) ==
    /\ a \in 1..Len(toks)
    /\ toks[a] = W_average
    /\ \A k \in 1..(a - 1) : UnknownDashWord(toks[k])

\* the tokens set maxrank and radiant: both flags are given to the average
\* subcommand, in either order, and no help option is met before both are read
SetsBoth(toks) ==
    \E a, i, j \in 1..Len(toks) :
        /\ AverageAt(toks, a)
        /\ a < i /\ a < j
        /\ toks[i] \in {O_m, O_maxrank}
        /\ toks[j] \in {O_r, O_radiant}
        /\ \A k \in (a + 1)..(IF i < j THEN j ELSE i) : toks[k] \notin {O_h, O_help}

\* C11: maxrank and radiant are mutually exclusive: every token list that
\* sets both, in either order, ends in a parser error and the exit of the
\* process, and no namespace that handle_input returns has both true.
C11_MaxrankRadiantExclusive ==
    /\ (Ended(Frame) /\ SetsBoth(Toks))
       => /\ pc = "exited"
          /\ EndedInParseError
          /\ exit_code # Running
          /\ returned = Unbound
    /\ pc = "returned" => ~(returned.maxrank /\ returned.radiant)

\* handle_input(["average", "bite", "-r", "-m"]) has ended in the error of
\* the exclusive group
C11_Witness ==
    /\ pc = "exited"
    /\ Toks = <<W_average, <<"b", "i", "t", "e">>, O_r, O_m>>
    /\ EndedInParseError
    /\ emitted[1].text = ErrorText(AvgUsage, Message("not allowed with argument", <<O_m>>))

\* token k is -t or --timerange
TimerangeAt(toks, k) == k \in 1..Len(toks) /\ toks[k] \in {O_t, O_timerange}

\* the token after token k passes the bounded integer parser for [1, 60)
ValuePasses(toks, k) ==
    /\ k < Len(toks)
    /\ PyIntSyntax(toks[k + 1])
    /\ 1 <= DenotedValue(toks[k + 1])
    /\ DenotedValue(toks[k + 1]) < 60

PlainWord(tok) == tok # <<>> /\ tok[1] # "-"

\* the average parser calls the bounded integer parser on token k + 1, which
\* raises: the tokens from the subcommand to the option are plain words, and
\* the value after -t/--timerange does not pass
TimerangeRaises(toks, k) ==
    /\ TimerangeAt(toks, k)
    /\ k < Len(toks)
    /\ PlainWord(toks[k + 1])
    /\ ~ValuePasses(toks, k)
    /\ \E a \in 1..(k - 1) :
          /\ AverageAt(toks, a)
          /\ \A between \in (a + 1)..(k - 1) : PlainWord(toks[between])

\* the message argparse makes of the ArgumentTypeError raised for tok
TimerangeMessage(tok) ==
    [what |-> "argument -t/--timerange: not an integer in the valid range",
     about |-> <<tok>>, min_val |-> 1, max_val |-> 60]

\* C13: an ArgumentTypeError raised by the bounded integer parser for a
\* --timerange value never leaves handle_input as an exception: the call ends
\* with the one formatted error message on stderr and the exit of the process.
C13_InvalidInputBecomesParseError ==
    \A k \in 1..Len(Toks) :
        (Ended(Frame) /\ TimerangeRaises(Toks, k))
        => /\ pc = "exited"
           /\ exit_code # Running
           /\ returned = Unbound
           /\ emitted = <<Write("stderr", ErrorText(AvgUsage, TimerangeMessage(Toks[k + 1])))>>

\* handle_input(["average", "bite", "-t", "60"]) has ended
C13_Witness ==
    /\ pc = "exited"
    /\ Toks = <<W_average, <<"b", "i", "t", "e">>, O_t, <<"6", "0">>>>
    /\ emitted = <<Write("stderr", ErrorText(AvgUsage, TimerangeMessage(<<"6", "0">>)))>>

\* the messages of the errors that the top-level parser detects
TopMessages == {"argument : invalid choice", "unrecognized arguments"}

\* the subcommand of the tokens: the first token that is no option
CommandOf(toks) ==
    toks[CHOOSE a \in 1..Len(toks) :
            /\ toks[a] \in possible_subcommands
            /\ \A k \in 1..(a - 1) : UnknownDashWord(toks[k])]

\* the usage string of the parser that detects the error with this message
DetectingUsage(toks, what) ==
    IF what \in TopMessages THEN TopUsage ELSE UsageOf(CommandOf(toks))

\* C14: on every parser error exactly one text is written before the
\* process exits: it goes to stderr and is "<usage>: error: <message>" (and
\* the end of the line), where <usage> is the usage string of the parser that
\* detected the error, the top-level parser or the subcommand's parser.
C14_ErrorMessageForm ==
    (pc = "exited" /\ \E k \in 1..Len(emitted) : emitted[k].text.kind = "error")
    => /\ Len(emitted) = 1
       /\ emitted[1].stream = "stderr"
       /\ emitted[1].text.form = <<"usage", ": error: ", "message", "\n">>
       /\ emitted[1].text.usage = DetectingUsage(Toks, emitted[1].text.message.what)
       /\ exit_code # Running

\* handle_input(["help", "bite"]) has ended in an error of the help parser
C14_Witness ==
    /\ pc = "exited"
    /\ Toks = <<W_help, <<"b", "i", "t", "e">>>>
    /\ emitted = <<Write("stderr", ErrorText(HelpUsage,
                       Message("argument subcommand: invalid choice", <<<<"b", "i", "t", "e">>>>)))>>

\* C15: whenever handle_input returns, the subparser field of the returned
\* namespace is one of the recognized commands average and help; token lists
\* without a recognized command never make it return.
C15_ReturnedSubcommandRecognized ==
    /\ pc = "returned"
       => /\ Truthy(returned.subparser)
          /\ returned.subparser \in possible_subcommands
          /\ \E a \in 1..Len(Toks) : Toks[a] = returned.subparser
    /\ (Ended(Frame) /\ \A a \in 1..Len(Toks) : Toks[a] \notin possible_subcommands)
       => pc = "exited" /\ returned = Unbound

\* handle_input(["average", "MEAN"]) has returned
C15_Witness ==
    /\ pc = "returned"
    /\ Toks = <<W_average, <<"M", "E", "A", "N">>>>
    /\ returned.subparser = W_average

\* the help subcommand was given a recognized subcommand
HelpNamesSubcommand ==
    /\ parsed_args # Unbound
    /\ parsed_args.subparser = W_help
    /\ Truthy(parsed_args.subcommand)

\* C18: when the help subcommand names a recognized subcommand, the nested
\* parse of [subcommand, "--help"] ends the process itself, so lines 438-441
\* are not reached: the one text written is the subcommand's help, never the
\* top-level help, and handle_input never returns a namespace of help.
C18_NestedParseExits ==
    /\ pc = "print_help" => ~Truthy(parsed_args.subcommand)
    /\ (Ended(Frame) /\ HelpNamesSubcommand)
       => /\ pc = "exited"
          /\ parses = 2
          /\ returned = Unbound
          /\ Len(emitted) = 1
          /\ emitted[1].text.kind = "help"
          /\ emitted[1].text.usage = UsageOf(parsed_args.subcommand)
          /\ emitted[1].text.usage # TopUsage
    /\ pc = "returned" => returned.subparser # W_help

\* handle_input(["help", " Average"]) has ended with the help of average
C18_Witness ==
    /\ pc = "exited"
    /\ Toks = <<W_help, <<" ", "A", "v", "e", "r", "a", "g", "e">>>>
    /\ HelpNamesSubcommand
    /\ parses = 2
    /\ emitted = <<Write("stdout", HelpText(AvgUsage))>>

OneTerminalState ==
    /\ pc = "exited" => (exit_code # Running /\ returned = Unbound)
    /\ pc = "returned" => (exit_code = Running /\ returned # Unbound)

\* a call that has not ended is at a statement whose guard holds
NotStuck ==
    ~Ended(Frame)
    => \/ AtParseArgs(Frame) \/ AtNoCommand(Frame) \/ AtHasCommand(Frame)
       \/ AtHelpSubcommand(Frame) \/ AtHelpNoSubcommand(Frame)
       \/ AtPrintHelp(Frame) \/ AtReturn(Frame)

\* C17: for every token list handle_input ends after finitely many steps, in
\* exactly one terminal state (an exit of the process, or a return) that it
\* never leaves; it runs parse_args at most once more after the first parse,
\* once for ["help", "help"], and never starts over.
C17_ReachesOneTerminalState ==
    /\ <>Ended(Frame)
    /\ []NotStuck
    /\ [](Ended(Frame) => OneTerminalState)
    /\ [](parses <= 2)
    /\ []((Ended(Frame) /\ Toks = <<W_help, W_help>>) => (pc = "exited" /\ parses = 2))
    /\ [][~Ended(Frame) /\ pc' # "parse_args" /\ parses' \in {parses, parses + 1}]_vars

\* handle_input(["help", "help"]) has ended after its nested parse
C17_Witness ==
    /\ pc = "exited"
    /\ Toks = <<W_help, W_help>>
    /\ parses = 2
    /\ emitted = <<Write("stdout", HelpText(HelpUsage))>>
    /\ exit_code = 0

====
